---- MODULE Spec2Model ----
(***************************************************************************)
(* Model of the websocat supervisor of test_web/src-tauri/src/main.rs:     *)
(* one shared cell  child: Arc<Mutex<Option<CommandChild>>>  and the four  *)
(* tauri commands start_websocat, stop_websocat, is_websocat_running and   *)
(* get_websocat_pid, run by concurrent callers, plus the output-drain task *)
(* each successful start launches.                                         *)
(*                                                                         *)
(* Every command is cut into the steps another caller can observe: taking  *)
(* the mutex, the code run under it, and the system calls (spawn, kill).   *)
(* The Err branch of  lock().map_err(..)?  is not modelled: a std Mutex is *)
(* poisoned only by a panic while its guard is alive, and no code run      *)
(* under the guard (is_some, take, kill, pid) panics.                      *)
(***************************************************************************)
EXTENDS Integers, Sequences, FiniteSets, TLC

\* Number of concurrent callers of the commands.
NumCallers == 2
\* Number of command invocations in one run.
MaxCalls == 4

Callers == 1..NumCallers
\* Every child is spawned by a start, so there are at most MaxCalls of them.
Handles == 1..MaxCalls

\* Option<CommandChild>::None in the shared cell and in a caller's local.
NoChild == 0

VARIABLES
    child,      \* WebsocatState.child: NoChild or the stored handle
    holders,    \* callers whose MutexGuard on state.child is alive
    pc,         \* each caller's position in the command it runs
    held,       \* each caller's local `child` (start: spawned, stop: taken)
    ret,        \* what each caller's last command returned
    ncalls,     \* commands invoked so far
    nspawn,     \* children spawned so far; the next handle is nspawn + 1
    alive,      \* spawned children whose process has not ended
    killReq,    \* children on which child.kill() was called
    drain,      \* per child, its output-drain task
    okSince,    \* history: pids returned by Start since the last Stop call
    stopOk,     \* history: a Stop returned Ok and no Start was called since
    wrote,      \* history: the caller's current/last command wrote `child`
    a_in,       \* argument model: the three optional inputs of start
    a_out       \* argument model: the argument list handed to the sidecar

vars == <<child, holders, pc, held, ret, ncalls, nspawn, alive, killReq,
          drain, okSince, stopOk, wrote, a_in, a_out>>

supVars == <<child, holders, pc, held, ret, ncalls, nspawn, alive, killReq,
             drain, okSince, stopOk, wrote>>
argVars == <<a_in, a_out>>

----------------------------------------------------------------------------
\* Results of the commands: Result<T, String>; `ty` names T, so that
\* Ok(()), Ok(false) and Ok(None) are different values.

\* No command has returned to this caller yet, or one is running.
NoRet == [st |-> "none", ty |-> "", err |-> "", pid |-> <<>>, flag |-> FALSE]
\* Err(message); the message is named by the error kind of the design.
Err(e) == [st |-> "Err", ty |-> "", err |-> e, pid |-> <<>>, flag |-> FALSE]
\* Ok(pid) of start_websocat.
OkPid(n) == [st |-> "Ok", ty |-> "u32", err |-> "", pid |-> <<n>>, flag |-> FALSE]
\* Ok(()) of stop_websocat.
OkUnit == [st |-> "Ok", ty |-> "()", err |-> "", pid |-> <<>>, flag |-> FALSE]
\* Ok(bool) of is_websocat_running.
OkBool(b) == [st |-> "Ok", ty |-> "bool", err |-> "", pid |-> <<>>, flag |-> b]
\* Ok(Option<u32>) of get_websocat_pid.
OkOptPid(o) == [st |-> "Ok", ty |-> "Option<u32>", err |-> "", pid |-> o, flag |-> FALSE]

\* CommandChild::pid(): the OS process id of a handle's process.
Pid(h) == 4000 + h

----------------------------------------------------------------------------
Init ==
    /\ child = NoChild
    /\ holders = {}
    /\ pc = [p \in Callers |-> "idle"]
    /\ held = [p \in Callers |-> NoChild]
    /\ ret = [p \in Callers |-> NoRet]
    /\ ncalls = 0
    /\ nspawn = 0
    /\ alive = {}
    /\ killReq = {}
    /\ drain = [h \in Handles |-> "none"]
    /\ okSince = {}
    /\ stopOk = FALSE
    /\ wrote = [p \in Callers |-> FALSE]
    /\ a_in = <<>>
    /\ a_out = <<>>

\* Lock as a faulty build would have it: the guard is handed out at once,
\* whoever holds one.
LockNoWait(p) == holders' = holders \cup {p}

\* state.child.lock(): blocks until no other guard is alive.
Lock(p) ==
    /\ holders = {}
    /\ holders' = {p}

\* Drop of the MutexGuard.
Unlock(p) == holders' = holders \ {p}

\* A caller invokes a command, entering it at position `entry`; nothing
\* shared is touched yet.
Invoke(p, entry) ==
    /\ pc[p] = "idle"
    /\ ncalls < MaxCalls
    /\ ncalls' = ncalls + 1
    /\ pc' = [pc EXCEPT ![p] = entry]
    /\ ret' = [ret EXCEPT ![p] = NoRet]
    /\ wrote' = [wrote EXCEPT ![p] = FALSE]
    /\ UNCHANGED <<child, holders, held, nspawn, alive, killReq, drain>>
    /\ UNCHANGED argVars

----------------------------------------------------------------------------
\* start_websocat (lines 33-93).

StartCall(p) ==
    /\ Invoke(p, "start_lock1")
    /\ stopOk' = FALSE
    /\ UNCHANGED okSince

\* Line 45: the first lock().
StartLock1(p) ==
    /\ pc[p] = "start_lock1"
    /\ Lock(p)
    /\ pc' = [pc EXCEPT ![p] = "start_check"]
    /\ UNCHANGED <<child, held, ret, ncalls, nspawn, alive, killReq, drain,
                   okSince, stopOk, wrote>>
    /\ UNCHANGED argVars

\* StartCheck with the is_some() test left out: every start goes on to spawn.
StartCheckNoReject(p) ==
    /\ pc[p] = "start_check"
    /\ ret' = ret
    /\ pc' = [pc EXCEPT ![p] = "start_spawn"]
    /\ Unlock(p)
    /\ UNCHANGED <<child, held, ncalls, nspawn, alive, killReq, drain,
                   okSince, stopOk, wrote>>
    /\ UNCHANGED argVars

\* Lines 46-49: is_some() rejects, otherwise the block ends; either way the
\* guard is dropped.
StartCheck(p) ==
    /\ pc[p] = "start_check"
    /\ IF child # NoChild
         THEN /\ ret' = [ret EXCEPT ![p] = Err("AlreadyRunning")]
              /\ pc' = [pc EXCEPT ![p] = "idle"]
         ELSE /\ ret' = ret
              /\ pc' = [pc EXCEPT ![p] = "start_spawn"]
    /\ Unlock(p)
    /\ UNCHANGED <<child, held, ncalls, nspawn, alive, killReq, drain,
                   okSince, stopOk, wrote>>
    /\ UNCHANGED argVars

\* StartSpawnFail that clears the cell on its way out (a cleanup written
\* for the wrong branch).
StartSpawnFailClears(p) ==
    /\ pc[p] = "start_spawn"
    /\ ret' = [ret EXCEPT ![p] = Err("SpawnFailed")]
    /\ pc' = [pc EXCEPT ![p] = "idle"]
    /\ child' = NoChild
    /\ wrote' = [wrote EXCEPT ![p] = TRUE]
    /\ UNCHANGED <<holders, held, ncalls, nspawn, alive, killReq,
                   drain, okSince, stopOk>>
    /\ UNCHANGED argVars

\* StartSpawnFail for a spawn that reports failure after the process was
\* created: the handle is stored and drained all the same.
StartSpawnFailStores(p) ==
    /\ pc[p] = "start_spawn"
    /\ ret' = [ret EXCEPT ![p] = Err("SpawnFailed")]
    /\ pc' = [pc EXCEPT ![p] = "idle"]
    /\ nspawn' = nspawn + 1
    /\ alive' = alive \cup {nspawn + 1}
    /\ child' = nspawn + 1
    /\ drain' = [drain EXCEPT ![nspawn + 1] = "reading"]
    /\ UNCHANGED <<holders, held, ncalls, killReq, okSince, stopOk, wrote>>
    /\ UNCHANGED argVars

\* Lines 56-60, the ? of new_sidecar and of spawn: no child, Err returned.
StartSpawnFail(p) ==
    /\ pc[p] = "start_spawn"
    /\ ret' = [ret EXCEPT ![p] = Err("SpawnFailed")]
    /\ pc' = [pc EXCEPT ![p] = "idle"]
    /\ UNCHANGED <<child, holders, held, ncalls, nspawn, alive, killReq,
                   drain, okSince, stopOk, wrote>>
    /\ UNCHANGED argVars

\* Lines 56-62: the sidecar is spawned, no lock held; the handle is a local.
StartSpawn(p) ==
    /\ pc[p] = "start_spawn"
    /\ nspawn' = nspawn + 1
    /\ alive' = alive \cup {nspawn + 1}
    /\ held' = [held EXCEPT ![p] = nspawn + 1]
    /\ pc' = [pc EXCEPT ![p] = "start_lock2"]
    /\ UNCHANGED <<child, holders, ret, ncalls, killReq, drain, okSince,
                   stopOk, wrote>>
    /\ UNCHANGED argVars

\* Line 66: the second lock().
StartLock2(p) ==
    /\ pc[p] = "start_lock2"
    /\ Lock(p)
    /\ pc' = [pc EXCEPT ![p] = "start_store"]
    /\ UNCHANGED <<child, held, ret, ncalls, nspawn, alive, killReq, drain,
                   okSince, stopOk, wrote>>
    /\ UNCHANGED argVars

\* A Stop is between its invocation and its return.
StopInFlight ==
    \E q \in Callers : pc[q] \in {"stop_lock", "stop_take", "stop_kill"}

\* StartStore that repeats the is_some() test under the second lock and
\* rejects there, after the spawn.
StartStoreRejectsLate(p) ==
    /\ pc[p] = "start_store"
    /\ IF child # NoChild
         THEN /\ ret' = [ret EXCEPT ![p] = Err("AlreadyRunning")]
              /\ UNCHANGED <<child, wrote, drain, okSince>>
         ELSE /\ child' = held[p]
              /\ wrote' = [wrote EXCEPT ![p] = TRUE]
              /\ drain' = [drain EXCEPT ![held[p]] = "reading"]
              /\ ret' = [ret EXCEPT ![p] = OkPid(Pid(held[p]))]
              /\ okSince' = IF StopInFlight THEN okSince
                            ELSE okSince \cup {Pid(held[p])}
    /\ Unlock(p)
    /\ held' = [held EXCEPT ![p] = NoChild]
    /\ pc' = [pc EXCEPT ![p] = "idle"]
    /\ UNCHANGED <<ncalls, nspawn, alive, killReq, stopOk>>
    /\ UNCHANGED argVars

\* Lines 67-92: *child_guard = Some(child) overwrites whatever is stored
\* (the old CommandChild is dropped, which does not kill its process), the
\* guard is dropped, the drain task of the new child is launched and
\* Ok(pid) is returned. Nothing after the store touches shared state.
StartStore(p) ==
    /\ pc[p] = "start_store"
    /\ child' = held[p]
    /\ wrote' = [wrote EXCEPT ![p] = TRUE]
    /\ Unlock(p)
    /\ drain' = [drain EXCEPT ![held[p]] = "reading"]
    /\ ret' = [ret EXCEPT ![p] = OkPid(Pid(held[p]))]
    /\ held' = [held EXCEPT ![p] = NoChild]
    /\ pc' = [pc EXCEPT ![p] = "idle"]
    /\ okSince' = IF StopInFlight THEN okSince ELSE okSince \cup {Pid(held[p])}
    /\ UNCHANGED <<ncalls, nspawn, alive, killReq, stopOk>>
    /\ UNCHANGED argVars

----------------------------------------------------------------------------
\* stop_websocat (lines 97-106).

StopCall(p) ==
    /\ Invoke(p, "stop_lock")
    /\ okSince' = {}
    /\ UNCHANGED stopOk

\* Line 98: lock(); this guard lives to the end of the function.
StopLock(p) ==
    /\ pc[p] = "stop_lock"
    /\ Lock(p)
    /\ pc' = [pc EXCEPT ![p] = "stop_take"]
    /\ UNCHANGED <<child, held, ret, ncalls, nspawn, alive, killReq, drain,
                   okSince, stopOk, wrote>>
    /\ UNCHANGED argVars

\* StopTake that drops the guard as soon as the handle is taken, so that
\* kill() runs with the lock free.
StopTakeReleases(p) ==
    /\ pc[p] = "stop_take"
    /\ IF child # NoChild
         THEN /\ held' = [held EXCEPT ![p] = child]
              /\ child' = NoChild
              /\ wrote' = [wrote EXCEPT ![p] = TRUE]
              /\ pc' = [pc EXCEPT ![p] = "stop_kill"]
              /\ Unlock(p)
              /\ UNCHANGED ret
         ELSE /\ ret' = [ret EXCEPT ![p] = Err("NotRunning")]
              /\ pc' = [pc EXCEPT ![p] = "idle"]
              /\ Unlock(p)
              /\ UNCHANGED <<child, held, wrote>>
    /\ UNCHANGED <<ncalls, nspawn, alive, killReq, drain, okSince, stopOk>>
    /\ UNCHANGED argVars

\* StopTake that looks at the handle (as_ref) instead of taking it: the
\* handle stays stored.
StopTakeKeeps(p) ==
    /\ pc[p] = "stop_take"
    /\ IF child # NoChild
         THEN /\ held' = [held EXCEPT ![p] = child]
              /\ pc' = [pc EXCEPT ![p] = "stop_kill"]
              /\ UNCHANGED <<child, wrote, ret, holders>>
         ELSE /\ ret' = [ret EXCEPT ![p] = Err("NotRunning")]
              /\ pc' = [pc EXCEPT ![p] = "idle"]
              /\ Unlock(p)
              /\ UNCHANGED <<child, held, wrote>>
    /\ UNCHANGED <<ncalls, nspawn, alive, killReq, drain, okSince, stopOk>>
    /\ UNCHANGED argVars

\* StopTake with the else branch returning Ok(()): a stop with nothing
\* stored reports success.
StopTakeOkWhenIdle(p) ==
    /\ pc[p] = "stop_take"
    /\ IF child # NoChild
         THEN /\ held' = [held EXCEPT ![p] = child]
              /\ child' = NoChild
              /\ wrote' = [wrote EXCEPT ![p] = TRUE]
              /\ pc' = [pc EXCEPT ![p] = "stop_kill"]
              /\ UNCHANGED <<ret, holders>>
         ELSE /\ ret' = [ret EXCEPT ![p] = OkUnit]
              /\ pc' = [pc EXCEPT ![p] = "idle"]
              /\ Unlock(p)
              /\ UNCHANGED <<child, held, wrote>>
    /\ UNCHANGED <<ncalls, nspawn, alive, killReq, drain, okSince, stopOk>>
    /\ UNCHANGED argVars

\* Lines 100, 103-105: take() moves the handle out of the cell; with none
\* stored the command returns Err and the guard is dropped.
StopTake(p) ==
    /\ pc[p] = "stop_take"
    /\ IF child # NoChild
         THEN /\ held' = [held EXCEPT ![p] = child]
              /\ child' = NoChild
              /\ wrote' = [wrote EXCEPT ![p] = TRUE]
              /\ pc' = [pc EXCEPT ![p] = "stop_kill"]
              /\ UNCHANGED <<ret, holders>>
         ELSE /\ ret' = [ret EXCEPT ![p] = Err("NotRunning")]
              /\ pc' = [pc EXCEPT ![p] = "idle"]
              /\ Unlock(p)
              /\ UNCHANGED <<child, held, wrote>>
    /\ UNCHANGED <<ncalls, nspawn, alive, killReq, drain, okSince, stopOk>>
    /\ UNCHANGED argVars

\* Lines 101-102: child.kill() succeeds, the process ends, Ok(()) is
\* returned and the guard is dropped.
StopKill(p) ==
    /\ pc[p] = "stop_kill"
    /\ killReq' = killReq \cup {held[p]}
    /\ alive' = alive \ {held[p]}
    /\ ret' = [ret EXCEPT ![p] = OkUnit]
    /\ stopOk' = TRUE
    /\ held' = [held EXCEPT ![p] = NoChild]
    /\ Unlock(p)
    /\ pc' = [pc EXCEPT ![p] = "idle"]
    /\ UNCHANGED <<child, ncalls, nspawn, drain, okSince, wrote>>
    /\ UNCHANGED argVars

\* StopKillFail that puts the handle back when the kill failed.
StopKillFailRestores(p) ==
    /\ pc[p] = "stop_kill"
    /\ killReq' = killReq \cup {held[p]}
    /\ ret' = [ret EXCEPT ![p] = Err("KillFailed")]
    /\ child' = held[p]
    /\ held' = [held EXCEPT ![p] = NoChild]
    /\ Unlock(p)
    /\ pc' = [pc EXCEPT ![p] = "idle"]
    /\ UNCHANGED <<ncalls, nspawn, alive, drain, okSince, stopOk, wrote>>
    /\ UNCHANGED argVars

\* StopKillFail that returns with its guard never dropped.
StopKillFailKeepsGuard(p) ==
    /\ pc[p] = "stop_kill"
    /\ killReq' = killReq \cup {held[p]}
    /\ ret' = [ret EXCEPT ![p] = Err("KillFailed")]
    /\ held' = [held EXCEPT ![p] = NoChild]
    /\ pc' = [pc EXCEPT ![p] = "idle"]
    /\ UNCHANGED <<child, holders, ncalls, nspawn, alive, drain, okSince,
                   stopOk, wrote>>
    /\ UNCHANGED argVars

\* Line 101, the ? of kill(): the OS refuses the signal, the process is as
\* it was, Err is returned and the guard is dropped.
StopKillFail(p) ==
    /\ pc[p] = "stop_kill"
    /\ killReq' = killReq \cup {held[p]}
    /\ ret' = [ret EXCEPT ![p] = Err("KillFailed")]
    /\ held' = [held EXCEPT ![p] = NoChild]
    /\ Unlock(p)
    /\ pc' = [pc EXCEPT ![p] = "idle"]
    /\ UNCHANGED <<child, ncalls, nspawn, alive, drain, okSince, stopOk, wrote>>
    /\ UNCHANGED argVars

----------------------------------------------------------------------------
\* is_websocat_running (lines 110-113) and get_websocat_pid (lines 117-120).

StatusCall(p) ==
    /\ Invoke(p, "status_lock")
    /\ UNCHANGED <<okSince, stopOk>>

StatusLock(p) ==
    /\ pc[p] = "status_lock"
    /\ Lock(p)
    /\ pc' = [pc EXCEPT ![p] = "status_read"]
    /\ UNCHANGED <<child, held, ret, ncalls, nspawn, alive, killReq, drain,
                   okSince, stopOk, wrote>>
    /\ UNCHANGED argVars

\* Line 112: Ok(child_guard.is_some()).
StatusRead(p) ==
    /\ pc[p] = "status_read"
    /\ ret' = [ret EXCEPT ![p] = OkBool(child # NoChild)]
    /\ Unlock(p)
    /\ pc' = [pc EXCEPT ![p] = "idle"]
    /\ UNCHANGED <<child, held, ncalls, nspawn, alive, killReq, drain,
                   okSince, stopOk, wrote>>
    /\ UNCHANGED argVars

PidCall(p) ==
    /\ Invoke(p, "pid_lock")
    /\ UNCHANGED <<okSince, stopOk>>

PidLock(p) ==
    /\ pc[p] = "pid_lock"
    /\ Lock(p)
    /\ pc' = [pc EXCEPT ![p] = "pid_read"]
    /\ UNCHANGED <<child, held, ret, ncalls, nspawn, alive, killReq, drain,
                   okSince, stopOk, wrote>>
    /\ UNCHANGED argVars

\* PidRead answering with the pid of the child spawned last instead of the
\* stored one.
PidReadLastSpawned(p) ==
    /\ pc[p] = "pid_read"
    /\ ret' = [ret EXCEPT ![p] =
                 OkOptPid(IF nspawn = 0 THEN <<>> ELSE <<Pid(nspawn)>>)]
    /\ Unlock(p)
    /\ pc' = [pc EXCEPT ![p] = "idle"]
    /\ UNCHANGED <<child, held, ncalls, nspawn, alive, killReq, drain,
                   okSince, stopOk, wrote>>
    /\ UNCHANGED argVars

\* Line 119: Ok(child_guard.as_ref().map(|c| c.pid())).
PidRead(p) ==
    /\ pc[p] = "pid_read"
    /\ ret' = [ret EXCEPT ![p] =
                 OkOptPid(IF child = NoChild THEN <<>> ELSE <<Pid(child)>>)]
    /\ Unlock(p)
    /\ pc' = [pc EXCEPT ![p] = "idle"]
    /\ UNCHANGED <<child, held, ncalls, nspawn, alive, killReq, drain,
                   okSince, stopOk, wrote>>
    /\ UNCHANGED argVars

----------------------------------------------------------------------------
\* The child process and its drain task (lines 71-90).

\* ChildExit in a design where the end of the tracked child clears the cell.
ChildExitClears(h) ==
    /\ h \in alive
    /\ alive' = alive \ {h}
    /\ child' = IF child = h THEN NoChild ELSE child
    /\ UNCHANGED <<holders, pc, held, ret, ncalls, nspawn, killReq,
                   drain, okSince, stopOk, wrote>>
    /\ UNCHANGED argVars

\* The child ends on its own; the supervisor is not told.
ChildExit(h) ==
    /\ h \in alive
    /\ alive' = alive \ {h}
    /\ UNCHANGED <<child, holders, pc, held, ret, ncalls, nspawn, killReq,
                   drain, okSince, stopOk, wrote>>
    /\ UNCHANGED argVars

\* Lines 74-79, 87: a Stdout or Stderr line (or another event) of a running
\* child is received and printed; the loop goes on.
DrainLine(h) ==
    /\ drain[h] = "reading"
    /\ h \in alive
    /\ UNCHANGED supVars
    /\ UNCHANGED argVars

\* DrainTerminated without the break: the event is printed and the loop
\* goes on reading.
DrainTerminatedNoBreak(h) ==
    /\ drain[h] = "reading"
    /\ h \notin alive
    /\ UNCHANGED supVars
    /\ UNCHANGED argVars

\* Lines 80-86: the Terminated event of an ended child is received and
\* printed; break.
DrainTerminated(h) ==
    /\ drain[h] = "reading"
    /\ h \notin alive
    /\ drain' = [drain EXCEPT ![h] = "done"]
    /\ UNCHANGED <<child, holders, pc, held, ret, ncalls, nspawn, alive,
                   killReq, okSince, stopOk, wrote>>
    /\ UNCHANGED argVars

----------------------------------------------------------------------------
Next ==
    \/ \E p \in Callers : StartCall(p)
    \/ \E p \in Callers : StartLock1(p)
    \/ \E p \in Callers : StartCheck(p)
    \/ \E p \in Callers : StartSpawnFail(p)
    \/ \E p \in Callers : StartSpawn(p)
    \/ \E p \in Callers : StartLock2(p)
    \/ \E p \in Callers : StartStore(p)
    \/ \E p \in Callers : StopCall(p)
    \/ \E p \in Callers : StopLock(p)
    \/ \E p \in Callers : StopTake(p)
    \/ \E p \in Callers : StopKill(p)
    \/ \E p \in Callers : StopKillFail(p)
    \/ \E p \in Callers : StatusCall(p)
    \/ \E p \in Callers : StatusLock(p)
    \/ \E p \in Callers : StatusRead(p)
    \/ \E p \in Callers : PidCall(p)
    \/ \E p \in Callers : PidLock(p)
    \/ \E p \in Callers : PidRead(p)
    \/ \E h \in Handles : ChildExit(h)
    \/ \E h \in Handles : DrainLine(h)
    \/ \E h \in Handles : DrainTerminated(h)

Spec == Init /\ [][Next]_vars

----------------------------------------------------------------------------
\* Scheduling. The commands are async fns on a multi-threaded runtime and
\* the drain task is a task of that runtime: a command that can take its
\* next step takes it, spawn() and kill() return, a caller that waits for the
\* mutex gets it once it stays free, and a drain task whose channel holds
\* the Terminated event receives it.

\* Number of command invocations in one run of the fair specifications.
MaxLiveCalls == 3

\* A step of caller p inside a command that does not wait for the mutex.
RunStep(p) ==
    \/ StartCheck(p)
    \/ StartSpawnFail(p)
    \/ StartSpawn(p)
    \/ StartStore(p)
    \/ StopTake(p)
    \/ StopKill(p)
    \/ StopKillFail(p)
    \/ StatusRead(p)
    \/ PidRead(p)

\* Caller p gets the mutex it waits for.
LockStep(p) ==
    \/ StartLock1(p)
    \/ StartLock2(p)
    \/ StopLock(p)
    \/ StatusLock(p)
    \/ PidLock(p)

\* The commands, invoked while the run has invoked fewer than MaxLiveCalls.
LiveStartCall(p) == ncalls < MaxLiveCalls /\ StartCall(p)

LiveStopCall(p) == ncalls < MaxLiveCalls /\ StopCall(p)

LiveStatusCall(p) == ncalls < MaxLiveCalls /\ StatusCall(p)

LivePidCall(p) == ncalls < MaxLiveCalls /\ PidCall(p)

\* Next with at most MaxLiveCalls invocations.
LiveNext ==
    \/ \E p \in Callers : LiveStartCall(p)
    \/ \E p \in Callers : LiveStopCall(p)
    \/ \E p \in Callers : LiveStatusCall(p)
    \/ \E p \in Callers : LivePidCall(p)
    \/ \E p \in Callers : LockStep(p)
    \/ \E p \in Callers : RunStep(p)
    \/ \E h \in Handles : ChildExit(h)
    \/ \E h \in Handles : DrainLine(h)
    \/ \E h \in Handles : DrainTerminated(h)

\* Every drain task is scheduled.
DrainLiveSpec ==
    Init /\ [][LiveNext]_vars /\ \A h \in Handles : WF_vars(DrainTerminated(h))

\* Every command is scheduled.
CallLiveSpec ==
    /\ Init /\ [][LiveNext]_vars
    /\ \A p \in Callers : WF_vars(RunStep(p)) /\ WF_vars(LockStep(p))

----------------------------------------------------------------------------
\* The argument list of the sidecar (lines 39-41 and 53-58), as a function
\* of the three optional inputs. Option<T> is <<>> (None) or <<v>> (Some(v)).

\* Line 39: ws_port.unwrap_or(12346).
DefaultWsPort == 12346
\* Line 40: "127.0.0.1".to_string().
DefaultTcpHost == "127.0.0.1"
\* Line 41: tcp_port.unwrap_or(12345).
DefaultTcpPort == 12345

\* Option::unwrap_or / unwrap_or_else.
UnwrapOr(opt, default) == IF opt = <<>> THEN default ELSE opt[1]

\* One decimal digit as text.
Digit(d) ==
    CASE d = 0 -> "0" [] d = 1 -> "1" [] d = 2 -> "2" [] d = 3 -> "3"
      [] d = 4 -> "4" [] d = 5 -> "5" [] d = 6 -> "6" [] d = 7 -> "7"
      [] d = 8 -> "8" [] d = 9 -> "9"

\* Display of a u16 in format!("{}", n): decimal, no sign, no leading zeros.
RECURSIVE FormatU16(_)
FormatU16(n) ==
    IF n < 10 THEN Digit(n) ELSE FormatU16(n \div 10) \o Digit(n % 10)

\* BuildArgs with the two default ports exchanged.
BuildArgsSwappedDefaults(ws_port_in, tcp_host_in, tcp_port_in) ==
    LET ws_port == UnwrapOr(ws_port_in, DefaultTcpPort)
        tcp_host == UnwrapOr(tcp_host_in, DefaultTcpHost)
        tcp_port == UnwrapOr(tcp_port_in, DefaultWsPort)
    IN  << "--text",
           "ws-l:0.0.0.0:" \o FormatU16(ws_port),
           "tcp:" \o tcp_host \o ":" \o FormatU16(tcp_port) >>

\* Lines 39-41, 53-54, 58: the defaults, the two format! calls and args().
BuildArgs(ws_port_in, tcp_host_in, tcp_port_in) ==
    LET ws_port == UnwrapOr(ws_port_in, DefaultWsPort)
        tcp_host == UnwrapOr(tcp_host_in, DefaultTcpHost)
        tcp_port == UnwrapOr(tcp_port_in, DefaultTcpPort)
        ws_listen == "ws-l:0.0.0.0:" \o FormatU16(ws_port)
        tcp_target == "tcp:" \o tcp_host \o ":" \o FormatU16(tcp_port)
    IN  << "--text", ws_listen, tcp_target >>

\* Inputs the frontend may send: omitted, or a u16 / a host name.
PortInputs == {<<>>, <<0>>, <<7>>, <<80>>, <<9000>>, <<9999>>, <<12345>>,
               <<12346>>, <<65535>>}
HostInputs == {<<>>, <<"10.0.0.5">>, <<"localhost">>, <<"127.0.0.1">>}

\* The frontend picks the inputs of one start_websocat call.
ArgsChoose ==
    /\ a_out = <<>>
    /\ a_in = <<>>
    /\ \E w \in PortInputs, h \in HostInputs, t \in PortInputs :
          a_in' = <<w, h, t>>
    /\ UNCHANGED a_out
    /\ UNCHANGED supVars

\* The call builds the argument list it hands to spawn().
ArgsBuild ==
    /\ a_in # <<>>
    /\ a_out = <<>>
    /\ a_out' = BuildArgs(a_in[1], a_in[2], a_in[3])
    /\ UNCHANGED a_in
    /\ UNCHANGED supVars

\* The next call.
ArgsNext ==
    /\ a_out # <<>>
    /\ a_in' = <<>>
    /\ a_out' = <<>>
    /\ UNCHANGED supVars

NextArgs ==
    \/ ArgsChoose
    \/ ArgsBuild
    \/ ArgsNext

SpecArgs == Init /\ [][NextArgs]_vars

----------------------------------------------------------------------------
\* Properties.

\* No command is running.
Quiescent == \A p \in Callers : pc[p] = "idle"

\* Caller p takes the step that leaves position `at`.
Leaves(p, at) == pc[p] = at /\ pc'[p] # at

\* C1: concurrent Start calls from Idle leave one tracked child and no
\* other live one: once every call has returned, and no Stop has ever
\* removed a handle, every child of the supervisor that is still running is
\* the tracked one.
C1_SingleInstance ==
    (Quiescent /\ killReq = {}) => alive \subseteq {child}

\* C2: a Start that runs its check after an earlier Start has returned Ok,
\* with no Stop invoked in between, is rejected with AlreadyRunning before it
\* spawns anything, and the rejection leaves a handle stored and does not
\* change it: the tracked process is one an earlier Start returned.
C2_SecondStartRejected ==
    [][\A p \in Callers :
         (Leaves(p, "start_check") /\ okSince # {}) =>
            /\ ret'[p] = Err("AlreadyRunning")
            /\ pc'[p] = "idle"
            /\ child' = child
            /\ child' # NoChild
            /\ Pid(child') \in okSince
            /\ nspawn' = nspawn
            /\ alive' = alive]_vars

\* C2 witness: one caller's Start returned the tracked child's pid and the
\* other caller's Start was rejected, no Stop having been invoked.
C2_Witness ==
    \E p, q \in Callers :
        /\ ret[p] = OkPid(Pid(child))
        /\ ret[q] = Err("AlreadyRunning")
        /\ okSince = {Pid(child)}
        /\ killReq = {}

\* C3: a Stop that finds nothing stored returns NotRunning, kills nothing
\* and leaves the cell empty.
C3_StopIdleNotRunning ==
    [][\A p \in Callers :
         (Leaves(p, "stop_take") /\ child = NoChild) =>
            /\ ret'[p] = Err("NotRunning")
            /\ pc'[p] = "idle"
            /\ child' = NoChild
            /\ killReq' = killReq
            /\ alive' = alive]_vars

\* C3 witness: Start, Stop, Stop: a child was killed by a Stop that returned
\* Ok, no Start was invoked since, and a later Stop returned NotRunning.
C3_Witness ==
    \E p \in Callers :
        /\ ret[p] = Err("NotRunning")
        /\ stopOk
        /\ killReq # {}
        /\ child = NoChild

\* C4: as long as no Stop is invoked after a Start returned Ok(n), a handle
\* is stored (Status is true) and its pid is n (Pid returns n).
C4_PidIsReturned ==
    \A n \in okSince : child # NoChild /\ Pid(child) = n

\* C5: after a Stop returned Ok, and until a Start is invoked, no handle is
\* stored (Status is false, Pid is empty).
C5_StoppedStaysIdle == stopOk => child = NoChild

\* C6: a Start stores its handle only into an empty cell and leaves it
\* full; a Stop that returns Ok has emptied a full cell.
C6_TwoStateMachine ==
    [][\A p \in Callers :
         /\ Leaves(p, "start_store") => (child = NoChild /\ child' # NoChild)
         /\ (Leaves(p, "stop_take") /\ pc'[p] = "stop_kill") =>
               (child # NoChild /\ child' = NoChild)]_vars

\* C7 as stated: a command that returned an error has not written the
\* stored handle.
C7_ErrorLeavesState ==
    \A p \in Callers : ret[p].st = "Err" => ~wrote[p]

\* C7 amended: a command that returned an error other than KillFailed has
\* not written the stored handle; one that returned KillFailed has (it
\* removed the handle before the kill).
C7_ErrorLeavesStateUnlessKillFailed ==
    \A p \in Callers :
        ret[p].st = "Err" => (wrote[p] <=> ret[p].err = "KillFailed")

\* C7 witness: both kinds of error have been returned: a Stop with
\* KillFailed, which emptied the cell, and a Start with an error, which
\* wrote nothing.
C7_Witness ==
    \E p, q \in Callers :
        /\ ret[p] = Err("KillFailed") /\ wrote[p]
        /\ ret[q].st = "Err" /\ ret[q].err \in {"AlreadyRunning", "SpawnFailed"}
        /\ ~wrote[q]

\* The positions at which a command reads or writes the stored handle.
AccessPositions ==
    {"start_check", "start_store", "stop_take", "status_read", "pid_read"}

\* C8: at most one guard is alive, every command at a position that reads
\* or writes the stored handle holds it, and the handle changes only in a
\* step of the caller holding the guard.
C8_MutualExclusion ==
    /\ [](Cardinality(holders) <= 1)
    /\ [](\A p \in Callers : pc[p] \in AccessPositions => p \in holders)
    /\ [][child' # child =>
            \E p \in holders : pc[p] \in AccessPositions /\ pc'[p] # pc[p]]_vars

\* C8 witness: one caller is about to store under the guard while the
\* other waits for the lock.
C8_Witness ==
    \E p, q \in Callers :
        /\ pc[p] = "start_store" /\ holders = {p}
        /\ pc[q] \in {"start_lock1", "start_lock2", "stop_lock",
                      "status_lock", "pid_lock"}

\* C9: Status returns true exactly when a handle is stored at its read, and
\* Pid returns the stored handle's pid at its read, or empty with none
\* stored; so both answer for the same cell.
C9_StatusPidReflectStore ==
    [][\A p \in Callers :
         /\ Leaves(p, "status_read") =>
               /\ ret'[p].st = "Ok"
               /\ ret'[p].flag <=> child \in 1..nspawn
         /\ Leaves(p, "pid_read") =>
               /\ ret'[p].st = "Ok"
               /\ child = NoChild => ret'[p].pid = <<>>
               /\ child # NoChild => ret'[p].pid = <<4000 + child>>
               /\ Len(ret'[p].pid) = (IF child \in 1..nspawn THEN 1 ELSE 0)]_vars

\* C9 witness: with a handle stored, one caller's Status returned true and
\* the other's Pid returned the stored child's pid.
C9_Witness ==
    \E p, q \in Callers :
        /\ child # NoChild
        /\ Quiescent
        /\ ret[p] = OkBool(TRUE)
        /\ ret[q] = OkOptPid(<<Pid(child)>>)

\* The text of the sample ports, written out.
PortText(n) ==
    CASE n = 0 -> "0" [] n = 7 -> "7" [] n = 80 -> "80" [] n = 9000 -> "9000"
      [] n = 9999 -> "9999" [] n = 12345 -> "12345" [] n = 12346 -> "12346"
      [] n = 65535 -> "65535"

\* C10: the argument list is --text, ws-l:0.0.0.0:<listenPort> and
\* tcp:<targetHost>:<targetPort>, an omitted input replaced by 12346,
\* 127.0.0.1, 12345 and a supplied one used as given.
C10_ArgsExact ==
    a_out # <<>> =>
        a_out = << "--text",
                   "ws-l:0.0.0.0:" \o
                      (IF a_in[1] = <<>> THEN "12346" ELSE PortText(a_in[1][1])),
                   "tcp:" \o
                      (IF a_in[2] = <<>> THEN "127.0.0.1" ELSE a_in[2][1]) \o ":" \o
                      (IF a_in[3] = <<>> THEN "12345" ELSE PortText(a_in[3][1])) >>

\* C10 witness: Start(None, None, None) has built the default argument list.
C10_Witness ==
    /\ a_in = << <<>>, <<>>, <<>> >>
    /\ a_out = <<"--text", "ws-l:0.0.0.0:12346", "tcp:127.0.0.1:12345">>


C12_KillFailedStillRemoves ==
    [][\A p \in Callers :
         (Leaves(p, "stop_kill") /\ ret'[p].st = "Err") =>
            /\ ret'[p] = Err("KillFailed")
            /\ wrote[p]
            /\ child = NoChild
            /\ child' = NoChild
            /\ held[p] \in killReq'
            /\ alive' = alive]_vars

\* C12 witness: one Stop returned KillFailed, the following Stop returned
\* NotRunning, and the cell is empty.
C12_Witness ==
    \E p, q \in Callers :
        /\ ret[p] = Err("KillFailed")
        /\ ret[q] = Err("NotRunning")
        /\ child = NoChild
        /\ Cardinality(killReq) = 1

\* C13: a Start whose spawn fails returns SpawnFailed, has stored nothing,
\* has launched no drain task and leaves the cell as it was before the spawn
\* attempt.
C13_SpawnFailedNoTrace ==
    [][\A p \in Callers :
         (Leaves(p, "start_spawn") /\ pc'[p] = "idle") =>
            /\ ret'[p] = Err("SpawnFailed")
            /\ child' = child
            /\ drain' = drain
            /\ nspawn' = nspawn
            /\ alive' = alive
            /\ ~wrote'[p]
            /\ held'[p] = NoChild
            /\ p \notin holders']_vars

\* C13 witness: one Start failed in its spawn with the cell empty, and a
\* Start invoked afterwards was not rejected: it stored the first child.
C13_Witness ==
    \E p, q \in Callers :
        /\ ret[p] = Err("SpawnFailed")
        /\ ret[q] = OkPid(Pid(1))
        /\ child = 1
        /\ nspawn = 1
        /\ ncalls = 2

\* C14: the end of a child and the steps of a drain task leave the stored
\* handle, the lock and every command's state as they are; a stored handle
\* changes only in the take of a Stop or the store of a Start.
C14_ExitLeavesState ==
    [][/\ \A h \in Handles :
            (ChildExit(h) \/ DrainLine(h) \/ DrainTerminated(h)) =>
               /\ child' = child
               /\ holders' = holders
               /\ pc' = pc
               /\ ret' = ret
       /\ (child # NoChild /\ child' # child) =>
             \E p \in Callers : Leaves(p, "stop_take") \/ Leaves(p, "start_store")]_vars

\* C14 witness: the tracked child has ended, its drain task is done, no Stop
\* has run, and Status returned true and Pid the dead child's pid.
C14_Witness ==
    \E p, q \in Callers :
        /\ child # NoChild
        /\ child \notin alive
        /\ drain[child] = "done"
        /\ killReq = {}
        /\ ret[p] = OkBool(TRUE)
        /\ ret[q] = OkOptPid(<<Pid(child)>>)

\* C15: a handle enters the cell only by the store of the Start that
\* spawned it, only once (it has never been stored or killed before), every
\* spawn yields a new handle, and kill is called on a child at most once.
C15_HandleNeverReused ==
    [][/\ (child' # child /\ child' # NoChild) =>
             \E p \in Callers :
                /\ Leaves(p, "start_store")
                /\ child' = held[p]
                /\ drain[held[p]] = "none"
                /\ held[p] \notin killReq
       /\ \A p \in Callers :
             /\ (Leaves(p, "start_spawn") /\ pc'[p] = "start_lock2") =>
                   /\ held'[p] \notin 0..nspawn
                   /\ \A q \in Callers \ {p} : held[q] # held'[p]
                   /\ held'[p] # child
             /\ Leaves(p, "stop_kill") =>
                   /\ held[p] \notin killReq
                   /\ killReq' = killReq \cup {held[p]}]_vars

\* C15 witness: a first child was stored, taken and killed, and a second
\* child, never killed, is stored now.
C15_Witness ==
    /\ Quiescent
    /\ killReq = {1}
    /\ child = 2
    /\ drain[1] # "none"

\* C17: a Start returns AlreadyRunning only from its first check, under the
\* guard, having spawned nothing, written nothing and launched nothing.
C17_RejectedBeforeSpawn ==
    [][\A p \in Callers :
         (ret'[p] = Err("AlreadyRunning") /\ ret[p] # ret'[p]) =>
            /\ pc[p] = "start_check"
            /\ p \in holders
            /\ held[p] = NoChild
            /\ ~wrote'[p]
            /\ nspawn' = nspawn
            /\ alive' = alive
            /\ drain' = drain
            /\ child' = child]_vars

\* C17 witness: after one Start stored the only child ever spawned, a second
\* Start was rejected; there is one child and one drain task.
C17_Witness ==
    \E p \in Callers :
        /\ ret[p] = Err("AlreadyRunning")
        /\ nspawn = 1
        /\ child = 1
        /\ ncalls = 2
        /\ \A h \in Handles : drain[h] # "none" <=> h = 1

\* The results stop_websocat can return.
StopResults == {OkUnit, Err("KillFailed"), Err("NotRunning")}

\* C18: one Start has stored a child and then every caller ran one Stop, in
\* any interleaving: exactly one Stop removed the handle and called kill,
\* every other returned NotRunning, and kill was called once.
C18_OneStopWins ==
    (/\ Quiescent
     /\ nspawn = 1
     /\ ncalls = NumCallers + 1
     /\ \A p \in Callers : ret[p] \in StopResults)
    => /\ Cardinality({p \in Callers : wrote[p]}) = 1
       /\ \A p \in Callers :
             IF wrote[p] THEN ret[p] \in {OkUnit, Err("KillFailed")}
                         ELSE ret[p] = Err("NotRunning")
       /\ killReq = {1}
       /\ child = NoChild

\* C18 witness: that state, with one Stop having returned Ok and another
\* NotRunning.
C18_Witness ==
    /\ Quiescent
    /\ nspawn = 1
    /\ ncalls = NumCallers + 1
    /\ \A p \in Callers : ret[p] \in StopResults
    /\ \E p, q \in Callers : ret[p] = OkUnit /\ ret[q] = Err("NotRunning")


\* C16: a drain task of a child that was stopped and has ended leaves its
\* loop, and a drain task that has left its loop reads nothing more.
C16_DrainEnds ==
    /\ \A h \in Handles :
          (h \in killReq /\ h \notin alive /\ drain[h] = "reading")
             ~> (drain[h] = "done")
    /\ [][\A h \in Handles : drain[h] = "done" => drain'[h] = "done"]_vars

\* C16 witness: a child was killed by a Stop that returned Ok and its drain
\* task is done.
C16_Witness ==
    \E h \in Handles, p \in Callers :
        /\ h \in killReq
        /\ h \notin alive
        /\ drain[h] = "done"
        /\ ret[p] = OkUnit

\* The positions at which a command waits for the mutex.
LockWaitPositions ==
    {"start_lock1", "start_lock2", "stop_lock", "status_lock", "pid_lock"}

\* C19: a command that has returned holds no guard, a command that waits
\* for the mutex holds no guard, only commands inside a locked section hold
\* one, and every command that was invoked returns.
C19_NoDeadlock ==
    /\ [](\A p \in Callers : pc[p] \in {"idle"} \cup LockWaitPositions
                                => p \notin holders)
    /\ [](\A p \in holders : pc[p] \in AccessPositions \cup {"stop_kill"})
    /\ \A p \in Callers : (pc[p] # "idle") ~> (pc[p] = "idle")

\* C19 witness: every command of the run has been invoked and has returned,
\* one of them on the error path of kill, and the lock is free.
C19_Witness ==
    /\ Quiescent
    /\ ncalls = MaxLiveCalls
    /\ holders = {}
    /\ \E p \in Callers : ret[p] = Err("KillFailed")

====
